---- MODULE Spec2Model ----
(***************************************************************************)
(* Radiant stratum proxy: the job/share pipeline.                          *)
(*                                                                         *)
(* TemplateState, the two callers of update_once (the polling loop and    *)
(* the ZMQ callback), the Stratum sessions with their handlers and the      *)
(* VarDiffManager, interleaved at the awaits of the code.  The             *)
(* specifications at the end compose these actions.                        *)
(*                                                                         *)
(* Real numbers (difficulties, intervals) are exact rationals [n, d];      *)
(* 256-bit hash and target values are modelled at reduced width.           *)
(***************************************************************************)
EXTENDS Integers, Sequences, FiniteSets, TLC

\* ------------------------------------------------------------------ bounds
NumSessions == 2
MaxHeight == 2
MaxTicks == 1
MaxSubscribes == 3
MaxShares == 1
MaxTicksVD == 3
MaxWindow == 3
NumClients == 2
MaxEvents == 3
MaxTxs == 4
NumTxIds == 3
MaxSmallHeight == 300
MaxFieldLen == 5
MaxLoads == 1

\* ------------------------------------------------------- program constants
\* updater.py:14  ROLL_SECONDS = getattr(settings, "ntime_roll", 30)
ROLL_SECONDS == 30
\* targets.py:8   DIFF1_TARGET, here 0xff where the code has 0xffff * 2^208
DIFF1_TARGET == 255
\* session.py:418  bits_counter.to_bytes(4, "big"): the values 4 bytes hold,
\* here 0..2 where the code has 0..2^32-1
EXTRANONCE1_SPACE == 3
\* share_feed.py:30 (500 there)
_client_queue_size == 2

Sessions == 1..NumSessions
\* the session of the miner that the single-miner specifications follow
Miner == 1
\* no session is followed
Nobody == {}
\* the WebSocket clients of /ws/shares
Clients == 1..NumClients
Updaters == {"poll", "zmq"}

\* Optional[bytes] pub_h160: the hash160 values of the model, and None
NoneH160 == "none"

\* ---------------------------------------------------------------- rationals
Rat(n, d) == [n |-> n, d |-> d]
\* an unset or zero difficulty: both read as "no difficulty" by the code
NoDiff == Rat(0, 1)
RECURSIVE Gcd(_, _)
Gcd(a, b) == IF b = 0 THEN a ELSE Gcd(b, a % b)
\* comparisons, sums and differences are formed over the least common
\* denominator
RatLess(a, b) == LET g == Gcd(a.d, b.d) IN a.n * (b.d \div g) < b.n * (a.d \div g)
RatLeq(a, b) == LET g == Gcd(a.d, b.d) IN a.n * (b.d \div g) <= b.n * (a.d \div g)
RatMul(a, b) == Rat(a.n * b.n, a.d * b.d)
RatDiv(a, b) == Rat(a.n * b.d, a.d * b.n)
RatAdd(a, b) ==
    LET g == Gcd(a.d, b.d)
    IN Rat(a.n * (b.d \div g) + b.n * (a.d \div g), (a.d \div g) * b.d)
RatSub(a, b) ==
    LET g == Gcd(a.d, b.d)
    IN Rat(a.n * (b.d \div g) - b.n * (a.d \div g), (a.d \div g) * b.d)
RatMax(a, b) == IF RatLess(a, b) THEN b ELSE a
RatMin(a, b) == IF RatLess(a, b) THEN a ELSE b
RatAbs(a) == IF a.n < 0 THEN Rat(0 - a.n, a.d) ELSE a
\* a value in lowest terms, so that equal values are equal records
RatNorm(a) ==
    LET g == Gcd(IF a.n < 0 THEN 0 - a.n ELSE a.n, a.d)
    IN IF a.n = 0 THEN Rat(0, 1) ELSE Rat(a.n \div g, a.d \div g)

\* a / b for a >= 0 and b > 0 with the common factors taken out before the
\* products are formed
RatQuot(a, b) ==
    LET g1 == Gcd(a.n, b.n)
        g2 == Gcd(a.d, b.d)
    IN Rat((a.n \div g1) * (b.d \div g2), (a.d \div g2) * (b.n \div g1))

Max(a, b) == IF a >= b THEN a ELSE b

\* ------------------------------------------------------------- environment
\* The addresses miners authorize with. base58.b58decode_check(address)
\* gives version byte + payload, or raises on a bad checksum.
Addresses == {"a1", "a2", "bad"}
\* and the other ways an address can be wrong: the version byte of another
\* network, a payload that is not 20 bytes long
BadAddresses == {"bad", "testnet", "long"}
b58decode_check(address) ==
    CASE address = "a1" -> [ok |-> TRUE, version |-> 0, h160 |-> "h1", len |-> 20]
      [] address = "a2" -> [ok |-> TRUE, version |-> 5, h160 |-> "h2", len |-> 20]
      [] address = "testnet" -> [ok |-> TRUE, version |-> 111, h160 |-> "h3", len |-> 20]
      [] address = "long" -> [ok |-> TRUE, version |-> 0, h160 |-> "h4", len |-> 21]
      [] OTHER -> [ok |-> FALSE, version |-> -1, h160 |-> NoneH160, len |-> 0]

\* The addresses of a miner that has one valid address and mistypes it
MinerAddresses == {"a1", "bad"}

\* The worker string a miner puts in mining.submit
Workers == {"a1"}

\* getblocktemplate's "target" for the block at a height (reduced width)
NodeTarget(h) == IF h % 2 = 1 THEN 5 ELSE 3

\* The proof-of-work integers a miner may reach by its choice of nonce
Hashes == {3, 5, 6, 15, 16, 257, 258}

\* config.py:19  testnet: bool = False
testnet == FALSE
\* config.py:25  static_share_difficulty: float = 1.0
static_share_difficulty == Rat(1, 1)
\* settings.share_difficulty_divisor where the caller's settings carry one
DivisorValue == 3

\* ------------------------------------------ VarDiffManager's parameters
\* VarDiffManager.__init__, with difficulties on the scale of the reduced diff1
\* and intervals on the scale of the clock
target_share_time == 15
min_difficulty == 40
max_difficulty == 100
retarget_shares == 2
retarget_time == 300
up_step == 2
down_step == Rat(1, 2)
ema_alpha == Rat(3, 10)
inactivity_lower == 30
inactivity_drop_factor == Rat(1, 2)
inactivity_multiples == 2
\* server.py:52-54  vardiff_manager.chain_headroom = settings.vardiff_chain_headroom
chain_headroom == Rat(9, 10)
\* MinerState.ema_interval = None
NoEma == Rat(-1, 1)

\* seconds of wall clock consumed: the clock moves by 1 s or by a roll interval
TicksOf(t) == ((t - 1) \div ROLL_SECONDS) + ((t - 1) % ROLL_SECONDS)

\* ---------------------------------------------------------------- consensus
\* byte strings are kept as terms: a transaction id is <<"txid", i>>, a + b is
\* <<a, b>>, and a digest is the term of what was hashed
TxIds == {<<"txid", i>> : i \in 1..NumTxIds}

\* hashers.py dsha256
dsha256(b) == <<"dsha256", b>>

\* merkle.py:12-14 one level: the last element is duplicated when the level
\* is odd, then the pairs are hashed
RECURSIVE HashPairs(_)
HashPairs(level) ==
    IF level = <<>> THEN <<>>
    ELSE <<dsha256(<<level[1], level[2]>>)>> \o HashPairs(SubSeq(level, 3, Len(level)))

PadOdd(level) == IF Len(level) % 2 = 1 THEN Append(level, level[Len(level)]) ELSE level

\* merkle.py:5-15
RECURSIVE MerkleLevels(_)
MerkleLevels(level) ==
    IF Len(level) > 1 THEN MerkleLevels(HashPairs(PadOdd(level))) ELSE level[1]

merkle_root_from_txids_le(txids) ==
    IF txids = <<>> THEN dsha256(<<>>)
    ELSE IF Len(txids) = 1 THEN txids[1]
    ELSE MerkleLevels(txids)

\* merkle.py:18-34; idx ^ 1 and idx //= 2 from idx = 0 (list indices from 1)
RECURSIVE BranchLevels(_, _)
BranchLevels(level, idx) ==
    IF Len(level) > 1
    THEN LET padded == PadOdd(level)
             pair == IF idx % 2 = 0 THEN idx + 1 ELSE idx - 1
         IN <<padded[pair + 1]>> \o BranchLevels(HashPairs(padded), idx \div 2)
    ELSE <<>>

merkle_branch_for_index0(txids) ==
    IF Len(txids) <= 1 THEN <<>> ELSE BranchLevels(txids, 0)

\* the fold with the sibling hashed on the left
RECURSIVE fold_branch_sibling_first(_, _)
fold_branch_sibling_first(leaf_le, branch) ==
    IF branch = <<>> THEN leaf_le
    ELSE fold_branch_sibling_first(dsha256(<<branch[1], leaf_le>>), Tail(branch))

\* merkle.py:37-41
RECURSIVE fold_branch_index0(_, _)
fold_branch_index0(leaf_le, branch) ==
    IF branch = <<>> THEN leaf_le
    ELSE fold_branch_index0(dsha256(<<leaf_le, branch[1]>>), Tail(branch))

\* the transaction-id lists of 1..MaxTxs elements
RECURSIVE TxLists(_)
TxLists(n) ==
    IF n = 0 THEN {<<>>}
    ELSE LET shorter == TxLists(n - 1)
         IN shorter \cup {Append(T, x) : T \in {S \in shorter : Len(S) = n - 1}, x \in TxIds}

MerkleCalls ==
    {[fn |-> "merkle", txids |-> T, done |-> FALSE, root |-> <<>>,
      branch |-> <<>>, folded |-> <<>>] : T \in TxLists(MaxTxs) \ {<<>>}}

\* int.to_bytes(length, "little"): a byte string is a sequence of 0..255
RECURSIVE to_bytes_little(_, _)
to_bytes_little(i, length) ==
    IF length = 0 THEN <<>>
    ELSE <<i % 256>> \o to_bytes_little(i \div 256, length - 1)

\* enc.py:4-13 (integers of the model stay below 2^31)
var_int(i) ==
    IF i < 253 THEN to_bytes_little(i, 1)
    ELSE IF i <= 65535 THEN <<253>> \o to_bytes_little(i, 2)
    ELSE <<254>> \o to_bytes_little(i, 4)

\* enc.py:16-24
op_push(i) ==
    IF i < 76 THEN to_bytes_little(i, 1)
    ELSE IF i <= 255 THEN <<76>> \o to_bytes_little(i, 1)
    ELSE IF i <= 65535 THEN <<77>> \o to_bytes_little(i, 2)
    ELSE <<78>> \o to_bytes_little(i, 4)

\* coinbase.py:28-31: the bytes of absvalue, least significant first
RECURSIVE ScriptNumBytes(_)
ScriptNumBytes(absvalue) ==
    IF absvalue = 0 THEN <<>>
    ELSE <<absvalue % 256>> \o ScriptNumBytes(absvalue \div 256)

\* coinbase.py:32-36 without the byte that carries the sign
NoSignByte(result, neg) == result

\* coinbase.py:32-36: a zero byte is appended when the top bit of the last byte
\* is set (0x80 for a negative number); a negative number whose top bit is
\* clear gets the bit set
SignByte(result, neg) ==
    IF result[Len(result)] >= 128 THEN Append(result, IF neg THEN 128 ELSE 0)
    ELSE IF neg THEN [result EXCEPT ![Len(result)] = @ + 128]
    ELSE result

\* coinbase.py:9-38
encode_height_bip34(height) ==
    IF height = 0 THEN <<0>>
    ELSE IF 1 <= height /\ height <= 16 THEN <<80 + height>>
    ELSE LET neg == height < 0
             absvalue == IF neg THEN 0 - height ELSE height
             result == SignByte(ScriptNumBytes(absvalue), neg)
         IN op_push(Len(result)) \o result

\* the heights encode_height_bip34 is called with: every height up to
\* MaxSmallHeight and the ones around the byte and sign-bit boundaries
Heights ==
    (0..MaxSmallHeight) \cup {32767, 32768, 65535, 65536, 500000, 8388607, 8388608}

Bip34Calls == {[fn |-> "bip34", height |-> h, done |-> FALSE, out |-> <<>>] : h \in Heights}

\* bytes(n) and b"\xff" * n
Repeat(byte, n) == [i \in 1..n |-> byte]

\* b"".join(...) of the serialized outputs (coinbase.py:82-88, 102)
RECURSIVE JoinOutputs(_)
JoinOutputs(outputs) ==
    IF outputs = <<>> THEN <<>>
    ELSE to_bytes_little(outputs[1].sat, 8) \o op_push(Len(outputs[1].script))
         \o outputs[1].script \o JoinOutputs(Tail(outputs))

\* coinbase.py:41-127
build_coinbase(pub_h160, height, arbitrary, miner_value, outputs_extra) ==
    LET bip34_height == encode_height_bip34(height)
        coinbase_script_without_extranonces ==
            bip34_height \o op_push(Len(arbitrary)) \o arbitrary
        extranonce_placeholder_size == 8
        total_script_length ==
            Len(coinbase_script_without_extranonces) + extranonce_placeholder_size
        coinbase_txin_start ==
            Repeat(0, 32) \o Repeat(255, 4) \o var_int(total_script_length)
            \o coinbase_script_without_extranonces
        coinbase_txin_end == Repeat(255, 4)
        vout_to_miner == <<118, 169, 20>> \o pub_h160 \o <<136, 172>>
        outputs == <<[sat |-> miner_value, script |-> vout_to_miner]>> \o outputs_extra
        num_outputs == Len(outputs)
        coinbase_txin == coinbase_txin_start \o coinbase_txin_end
        tx_version == 1
        coinbase_tx ==
            to_bytes_little(tx_version, 4) \o <<1>> \o coinbase_txin
            \o var_int(num_outputs) \o JoinOutputs(outputs) \o Repeat(0, 4)
        coinbase1 == to_bytes_little(tx_version, 4) \o <<1>> \o coinbase_txin_start
        coinbase2 ==
            coinbase_txin_end \o var_int(num_outputs) \o JoinOutputs(outputs)
            \o Repeat(0, 4)
    IN [coinbase_tx |-> coinbase_tx, coinbase_txid |-> dsha256(coinbase_tx),
        coinbase1 |-> coinbase1, coinbase2 |-> coinbase2,
        coinbase1_nowit |-> coinbase1, coinbase2_nowit |-> coinbase2]

\* the arguments build_coinbase is called with and the extranonce1 and
\* extranonce2 of a submit
CoinbaseCalls ==
    {[fn |-> "coinbase", pub_h160 |-> Repeat(h, 20), height |-> height,
      arbitrary |-> arbitrary, miner_value |-> miner_value,
      outputs_extra |-> outputs_extra, en1 |-> en1, en2 |-> en2,
      done |-> FALSE, built |-> <<>>, coinbase_nowit |-> <<>>, coinbase_txid_le |-> <<>>] :
        h \in {17, 34}, height \in {0, 1, 16, 17, 128, 500000},
        arbitrary \in {<<>>, <<47>>, <<47, 82>>},
        miner_value \in {0, 1250000000},
        outputs_extra \in {<<>>, <<[sat |-> 1, script |-> <<106>>]>>},
        en1 \in {<<0, 0, 0, 1>>, <<0, 0, 0, 2>>}, en2 \in {<<0, 0, 0, 0>>, <<9, 8, 7, 6>>}}

\* header.py:1-16
build_header80_le(version, prevhash_le, merkleroot_le, ntime_le, bits_le, nonce_le) ==
    to_bytes_little(version, 4) \o prevhash_le \o merkleroot_le \o ntime_le
    \o bits_le \o nonce_le

\* b[::-1]
Reverse(b) == [i \in 1..Len(b) |-> b[Len(b) + 1 - i]]

\* the bytes of a 32-byte digest or hash taken from the template
Digest == Repeat(7, 32)

\* the decoded hex strings of a mining.submit (none of them empty,
\* session.py:623) on a session that has subscribed or has not (its
\* extranonce1 is then None), and the proof-of-work integer of the header
SubmitCalls ==
    {[fn |-> "header", extranonce1 |-> en1, extranonce2 |-> Repeat(2, a),
      ntime |-> Repeat(3, b), nonce |-> Repeat(4, c), hnum |-> hnum,
      done |-> FALSE, coinbase_nowit |-> <<>>, header80 |-> <<>>, result |-> FALSE] :
        en1 \in {<<>>, <<0, 0, 0, 1>>}, a \in 1..MaxFieldLen, b \in 1..MaxFieldLen,
        c \in 1..MaxFieldLen, hnum \in {3, 6, 258}}

VARIABLES
    now,          \* int(time.time())
    nodeHeight,   \* height of the node's current block template
    zmqQueue,     \* hashblock messages published and not yet received
    has_divisor,  \* whether settings has a share_difficulty_divisor attribute
    disk,         \* vardiff_manager.state_path, the file it names, the times read
    state,        \* TemplateState
    sess,         \* the StratumSession objects
    upd,          \* the update_once invocations in flight, per caller
    worker_shares,\* hashrate_tracker.worker_shares
    miners,       \* vardiff_manager.miners
    proc,         \* the tasks of main() and whether main() has returned
    feed,         \* the ShareFeedManager, its clients' queues and its tasks
    calc,         \* a call of a consensus function: its arguments and result
    watched,      \* the sessions whose miner is observed: {Miner} or none
    obs           \* what the observed miner has been sent and answered

vars == <<now, nodeHeight, zmqQueue, has_divisor, disk, proc, feed, calc, state, sess, upd, worker_shares, miners, watched, obs>>

NoCoinbase == [h160 |-> NoneH160, height |-> -1]
\* job_params: the job id, the template the job was built from, the hash160
\* output 0 of its coinbase pays, the clean flag;
\* and the difficulty sent ahead of it
NoJob == [jid |-> -1, height |-> -1, h160 |-> NoneH160, clean |-> FALSE, diff |-> NoDiff]

\* TemplateState() at construction
TemplateState ==
    [height |-> -1, timestamp |-> -1, pub_h160 |-> NoneH160,
     prevHash_header |-> -1, target |-> -1, bits_le |-> -1,
     coinbase |-> NoCoinbase, externalTxs |-> -1, merkle_branches |-> -1,
     advertised_diff |-> NoDiff,
     new_sessions |-> {}, all_sessions |-> {},
     job_counter |-> 0, bits_counter |-> 0]

\* a miner id the VarDiffManager has no MinerState for
NoMiner == [difficulty |-> NoDiff, shares |-> <<>>, last_retarget |-> -1,
            ema_interval |-> NoEma]

\* vardiff.py:196-204 and 221-228: what the file keeps of the miners and what
\* _load_state makes of it (difficulty, last_retarget and ema_interval; the
\* share window starts empty)
Persisted(ms) ==
    [m \in DOMAIN ms |-> IF ms[m] = NoMiner THEN NoMiner ELSE [ms[m] EXCEPT !.shares = <<>>]]

\* vardiff.py:41: state_path = None, nothing is persisted
NoStatePath == [path |-> FALSE, file |-> "none", data |-> [m \in Workers |-> NoMiner],
                loads |-> 0]
\* a state_path that names no file yet
NoStateFile == [NoStatePath EXCEPT !.path = TRUE]

\* StratumSession.__init__ (conn: the transport; keepalive: the keepalive task
\* is running; apc/bpc: the handler awaits)
StratumSession ==
    [conn |-> "free", extranonce1 |-> 0, worker_name |-> "none",
     authorized |-> FALSE, share_difficulty |-> NoDiff,
     keepalive |-> FALSE,
     apc |-> "idle", bpc |-> "idle"]

\* one update_once call: where it is suspended, the template it fetched, the
\* fan-out loop it is in and its locals
IdleUpdate == [pc |-> "idle", fetched |-> -1, phase |-> "none",
               todo |-> {}, alive |-> {}, job |-> NoJob]

\* what the miner has seen: the job of the last notify, the job it held before
\* the last clean notify, the job it held when the last hashblock message was
\* received and whether a clean job with a greater id came since, the
\* difficulty of the last set_difficulty, whether a notify came before any
\* set_difficulty, its last mining.authorize (whether the address was a valid
\* one and what it was answered), and its
\* last submit: the hash, target and difficulty it was judged by, how the
\* tracker counted it, the share event offered to the share feed and the
\* share log, what the node answered and what the miner was answered
NoAuthorize == [valid |-> FALSE, result |-> "none"]
NoSubmit == [result |-> "none", stale |-> FALSE, hnum |-> -1, target |-> -1,
             sent_diff |-> NoDiff, counted |-> "none", event |-> "none",
             rpc |-> "none"]
NoObs == [jid |-> -1, height |-> -1, superseded |-> -1,
          held |-> -2, seen |-> FALSE, set_difficulty |-> NoDiff,
          bare |-> FALSE, authorize |-> NoAuthorize, submit |-> NoSubmit]

\* run.py:178-201: main() has created the updater, the Stratum server and the
\* ZMQ listener tasks and waits for them; listener.py:73: consecutive_errors
CreatedTasks == [main |-> "waiting", updater |-> "running", server |-> "starting",
                 listener |-> "starting", consecutive_errors |-> 0]
\* the tasks once the Stratum port is bound and the listener is in its loop
StartedTasks == [CreatedTasks EXCEPT !.server = "serving", !.listener = "listening"]

\* share_feed.py:19-30 ShareFeedManager.__init__, with the queues the
\* WebSocket handlers have created (created), the handlers that have ended
\* (closed), the _broadcast tasks scheduled and not yet run, and len(shares)
ShareFeedManager ==
    [connected_clients |-> {}, queues |-> [c \in Clients |-> <<>>],
     created |-> {}, closed |-> {}, tasks |-> <<>>, shares |-> 0]

\* no consensus function has been called
NoCalc == [fn |-> "none"]

Init ==
    /\ watched \in {Nobody, {Miner}}
    /\ proc \in {CreatedTasks, StartedTasks}
    /\ feed = ShareFeedManager
    /\ calc \in {NoCalc} \cup MerkleCalls \cup Bip34Calls \cup CoinbaseCalls \cup SubmitCalls
    /\ now = 1
    /\ nodeHeight = 1
    /\ zmqQueue = 0
    /\ has_divisor \in BOOLEAN
    /\ disk \in {NoStatePath, NoStateFile}
    /\ state = TemplateState
    /\ sess = [s \in Sessions |-> StratumSession]
    /\ upd = [u \in Updaters |-> IdleUpdate]
    /\ worker_shares = [w \in Workers |-> <<>>]
    /\ miners = [m \in Workers |-> NoMiner]
    /\ obs = NoObs

\* ------------------------------------------------------------- environment
Tick(limit) ==
    /\ TicksOf(now) < limit
    /\ \E d \in {1, ROLL_SECONDS} : now' = now + d
    /\ UNCHANGED <<nodeHeight, zmqQueue, has_divisor, disk, feed, calc, proc, state, sess, upd, worker_shares, obs, watched, miners>>

\* the node accepts a block: its template moves to the next height and it
\* publishes a hashblock message
NewBlock ==
    /\ nodeHeight < MaxHeight
    /\ nodeHeight' = nodeHeight + 1
    /\ zmqQueue' = zmqQueue + 1
    /\ UNCHANGED <<now, has_divisor, disk, feed, calc, proc, state, sess, upd, worker_shares, obs, watched, miners>>

\* ------------------------------------------------------------ observations
\* the miner receives mining.notify(job): a clean job supersedes the job it
\* held, unless it is that same job sent again
Notified(o, job) ==
    [o EXCEPT !.jid = job.jid,
              !.height = job.height,
              !.superseded = IF job.clean /\ <<job.jid, job.height>> # <<o.jid, o.height>>
                             THEN o.jid ELSE @,
              !.seen = @ \/ (o.held # -2 /\ job.clean /\ job.jid > o.held),
              !.bare = @ \/ o.set_difficulty = NoDiff]

\* the miner receives mining.set_difficulty(difficulty)
SetDifficulty(o, difficulty) == [o EXCEPT !.set_difficulty = difficulty]

\* a job sent to session s without a set_difficulty ahead of it
SentBare(s, job) ==
    IF s \in watched /\ sess[s].conn = "live" THEN Notified(obs, job) ELSE obs

\* send_notification("mining.set_difficulty", (difficulty,)) and then
\* send_notification("mining.notify", job) to session s; they reach its miner
\* when the transport is live
Sent(s, job) ==
    IF s \in watched /\ sess[s].conn = "live"
    THEN Notified(SetDifficulty(obs, job.diff), job) ELSE obs

\* the outcomes of a send_notification to session s: on a live transport it
\* returns; on a lost one it returns or raises
SendOutcomes(s) == IF sess[s].conn = "live" THEN {TRUE} ELSE BOOLEAN

\* ------------------------------------------------------- hashrate tracker
\* HashrateTracker.add_share: append the share to the worker's list; the
\* clock stays within one window, so no entry is older than the window
add_share(ws, worker, accepted) == [ws EXCEPT ![worker] = Append(@, accepted)]

\* HashrateTracker.remove_worker; a session without a worker id removes nothing
remove_worker(ws, worker) ==
    IF worker \in DOMAIN ws THEN [ws EXCEPT ![worker] = <<>>] ELSE ws

\* ------------------------------------------------------------- update_once
\* targets.py target_to_diff1
target_to_diff1(target_int) == Rat(DIFF1_TARGET, target_int)

\* the ends of the two fan-out loops: state.all_sessions = alive and the
\* snapshot list(state.new_sessions); state.new_sessions.clear(); return True
FanOutNext(st, ur) ==
    IF ur.phase = "all" /\ ur.todo = {}
    THEN IF st.new_sessions = {}
         THEN <<[st EXCEPT !.all_sessions = ur.alive],
                IdleUpdate>>
         ELSE <<[st EXCEPT !.all_sessions = ur.alive],
                [ur EXCEPT !.phase = "new", !.todo = st.new_sessions, !.alive = {}]>>
    ELSE IF ur.phase = "new" /\ ur.todo = {}
    THEN <<[st EXCEPT !.new_sessions = {}], IdleUpdate>>
    ELSE <<st, ur>>

\* the publish decision of update_once (updater.py:49, 55, 119)
NewBlockSeen(st, height_int) == st.height = -1 \/ st.height # height_int
RollDue(st, ts) == st.timestamp = -1 \/ st.timestamp + ROLL_SECONDS <= ts
Clean(new_block, roll_due) == ~roll_due \/ new_block

\* updater.py:28-53: the fields written on every refresh
Refreshed(st, height_int) ==
    [st EXCEPT !.prevHash_header = height_int,
               !.height = IF NewBlockSeen(st, height_int) THEN height_int ELSE @,
               !.target = NodeTarget(height_int)]

\* an error check that comes after the first writes to the state
RaisedAfterRefresh(st, height_int) == Refreshed(st, height_int)

\* updater.py:16-18: raise RuntimeError(js["error"]), ahead of every write
\* to the state
Raised(st, height_int) == st

\* updater.py:16-18: the getblocktemplate round trip; when the node answers
\* with an error update_once raises and its caller logs it
update_once_fetch(u) ==
    /\ upd[u].pc = "idle"
    /\ \E ok \in BOOLEAN :
         /\ upd' = [upd EXCEPT ![u] =
                      IF ok THEN [IdleUpdate EXCEPT !.pc = "fetched", !.fetched = nodeHeight]
                      ELSE IdleUpdate]
         /\ state' = IF ok THEN state ELSE Raised(state, nodeHeight)

\* updater.py:179-195: the polling loop calls update_once
state_updater_loop ==
    /\ update_once_fetch("poll")
    /\ UNCHANGED <<now, nodeHeight, zmqQueue, has_divisor, disk, feed, calc, proc, sess, worker_shares, obs, watched, miners>>

\* listener.py:81-101 and run.py:171-176: a hashblock message is received and
\* the callback calls update_once(force_update=True)
on_rxd_block ==
    /\ zmqQueue > 0
    /\ zmqQueue' = zmqQueue - 1
    /\ update_once_fetch("zmq")
    /\ obs' = IF \E w \in watched : w \in state.all_sessions /\ sess[w].conn = "live"
              THEN [obs EXCEPT !.held = obs.jid, !.seen = FALSE]
              ELSE [obs EXCEPT !.held = -2, !.seen = FALSE]
    /\ proc' = [proc EXCEPT !.consecutive_errors = 0]
    /\ UNCHANGED <<now, nodeHeight, has_divisor, disk, feed, calc, sess, worker_shares, watched, miners>>

\* updater.py:73-114: the job built from the refreshed template
Published(st, height_int, ts) ==
    [st EXCEPT !.coinbase = [h160 |-> st.pub_h160, height |-> st.height],
               !.externalTxs = height_int,
               !.merkle_branches = height_int,
               !.bits_le = height_int,
               !.timestamp = ts,
               !.job_counter = ts,
               !.advertised_diff = target_to_diff1(st.target)]

\* updater.py:28-132: from the template to the start of the fan-out
update_once_apply(u) ==
    /\ upd[u].pc = "fetched"
    /\ LET height_int == upd[u].fetched
           ts == now
           new_block == NewBlockSeen(state, height_int)
           roll_due == RollDue(state, ts)
           st1 == Refreshed(state, height_int)
           st2 == Published(st1, height_int, ts)
           difficulty == RatDiv(target_to_diff1(st2.target), Rat(DivisorValue, 1))
           job == [jid |-> st2.job_counter, height |-> st2.coinbase.height,
                   h160 |-> st2.coinbase.h160,
                   clean |-> Clean(new_block, roll_due), diff |-> difficulty]
           nx == FanOutNext(st2, [upd[u] EXCEPT !.pc = "fanout", !.phase = "all",
                                                !.todo = st2.all_sessions,
                                                !.alive = {}, !.job = job])
       IN IF ~(new_block \/ roll_due)
          THEN /\ state' = st1
               /\ upd' = [upd EXCEPT ![u] = IdleUpdate]
          ELSE IF st1.pub_h160 = NoneH160
          THEN /\ state' = st1
               /\ upd' = [upd EXCEPT ![u] = IdleUpdate]
          ELSE IF ~has_divisor
          THEN \* updater.py:117 raises AttributeError
               /\ state' = st2
               /\ upd' = [upd EXCEPT ![u] = IdleUpdate]
          ELSE /\ state' = nx[1]
               /\ upd' = [upd EXCEPT ![u] = nx[2]]
    /\ UNCHANGED <<now, nodeHeight, zmqQueue, has_divisor, disk, feed, calc, proc, sess, worker_shares, obs, watched, miners>>

\* updater.py:133-162: one iteration of the loop over list(state.all_sessions)
update_once_send_all(u, s) ==
    /\ upd[u].pc = "fanout" /\ upd[u].phase = "all"
    /\ s \in upd[u].todo
    /\ \E ok \in SendOutcomes(s) :
         LET ur == [upd[u] EXCEPT !.todo = @ \ {s},
                                  !.alive = IF ok THEN @ \cup {s} ELSE @]
             nx == FanOutNext(state, ur)
         IN /\ state' = nx[1]
            /\ upd' = [upd EXCEPT ![u] = nx[2]]
            /\ sess' = [sess EXCEPT ![s].share_difficulty = upd[u].job.diff]
            /\ obs' = IF ok THEN Sent(s, upd[u].job) ELSE obs
            /\ worker_shares' = IF ok THEN worker_shares
                                ELSE remove_worker(worker_shares, sess[s].worker_name)
    /\ UNCHANGED <<now, nodeHeight, zmqQueue, has_divisor, disk, feed, calc, proc, watched, miners>>

\* updater.py:164-174: one iteration of the loop over list(state.new_sessions)
update_once_send_new(u, s) ==
    /\ upd[u].pc = "fanout" /\ upd[u].phase = "new"
    /\ s \in upd[u].todo
    /\ \E ok \in SendOutcomes(s) :
         LET ur == [upd[u] EXCEPT !.todo = @ \ {s}]
             st == IF ok THEN [state EXCEPT !.all_sessions = @ \cup {s}] ELSE state
             nx == FanOutNext(st, ur)
         IN /\ state' = nx[1]
            /\ upd' = [upd EXCEPT ![u] = nx[2]]
            /\ sess' = [sess EXCEPT ![s].share_difficulty = upd[u].job.diff]
            /\ obs' = IF ok THEN Sent(s, upd[u].job) ELSE obs
    /\ UNCHANGED <<now, nodeHeight, zmqQueue, has_divisor, disk, feed, calc, proc, worker_shares, watched, miners>>

\* ---------------------------------------------------------------- sessions
\* a miner connects: serve_rs creates the StratumSession (server.py:79-87)
Connect(s) ==
    /\ sess[s].conn = "free"
    /\ sess' = [sess EXCEPT ![s].conn = "live"]
    /\ UNCHANGED <<now, nodeHeight, zmqQueue, has_divisor, disk, feed, calc, proc, state, upd, worker_shares, obs, watched, miners>>

\* a conversion that keeps the low bit of the counter
to_bytes_low_bit(n) == n % 2

\* session.py:418  int.to_bytes(4, "big"): the value when it fits, and
\* OverflowError (-1) when it does not
to_bytes(n) == IF n < EXTRANONCE1_SPACE THEN n ELSE -1

\* session.py:414-436; when to_bytes raises, the session is in new_sessions
\* and the counter has moved, and the session keeps the extranonce1 it had
handle_subscribe(s) ==
    /\ sess[s].conn = "live"
    /\ state.bits_counter < MaxSubscribes
    /\ state' = [state EXCEPT
                   !.new_sessions = IF s \notin state.all_sessions THEN @ \cup {s} ELSE @,
                   !.bits_counter = @ + 1]
    /\ sess' = [sess EXCEPT ![s].extranonce1 =
                    IF to_bytes(state.bits_counter + 1) = -1 THEN @
                    ELSE to_bytes(state.bits_counter + 1)]
    /\ UNCHANGED <<now, nodeHeight, zmqQueue, has_divisor, disk, feed, calc, proc, upd, worker_shares, obs, watched, miners>>

\* address checks that leave out the length of the hash
ValidAddressAnyLength(address) ==
    LET addr_decoded == b58decode_check(address)
        expected_versions == IF testnet THEN {111, 196} ELSE {0, 5}
    IN addr_decoded.ok /\ addr_decoded.version \in expected_versions

\* session.py:441-468: the address checks of handle_authorize
ValidAddress(address) ==
    LET addr_decoded == b58decode_check(address)
        expected_versions == IF testnet THEN {111, 196} ELSE {0, 5}
    IN addr_decoded.ok /\ addr_decoded.version \in expected_versions
       /\ addr_decoded.len = 20

\* a handle_authorize that takes the payout whether or not one is set
ClaimPayoutAlways(st, pub_h160) == [st EXCEPT !.pub_h160 = pub_h160]

\* session.py:470-471
ClaimPayout(st, pub_h160) ==
    [st EXCEPT !.pub_h160 = IF @ = NoneH160 THEN pub_h160 ELSE @]

\* the miner of the observed session records the answer to its authorize
Answered(s, rec) == IF s \in watched THEN [obs EXCEPT !.authorize = rec] ELSE obs

\* session.py:438-487: handle_authorize up to its first await, called with
\* one of the given usernames
handle_authorize_as(s, usernames) ==
    /\ sess[s].conn = "live"
    /\ sess[s].apc = "idle"
    /\ \E username \in usernames :
         IF ~ValidAddress(username)
         THEN \* raise RPCError(20, ...)
              /\ sess' = [sess EXCEPT ![s].worker_name = username]
              /\ state' = state
              /\ obs' = Answered(s, [valid |-> FALSE, result |-> "error 20"])
         ELSE /\ state' = [ClaimPayout(state, b58decode_check(username).h160) EXCEPT
                              !.all_sessions = @ \cup {s},
                              !.new_sessions = @ \ {s}]
              /\ sess' = [sess EXCEPT ![s].worker_name = username,
                                      ![s].authorized = TRUE,
                                      ![s].apc = "connected"]
              /\ obs' = Answered(s, [valid |-> TRUE, result |-> "pending"])
    /\ UNCHANGED <<now, nodeHeight, zmqQueue, has_divisor, disk, feed, calc, proc, upd, worker_shares, watched, miners>>

handle_authorize(s) == handle_authorize_as(s, Addresses)

\* template.py:42-55: None until a coinbase has been built; the clean flag of
\* the job it returns is always True
current_job_params(st) ==
    [jid |-> st.job_counter, height |-> st.coinbase.height,
     h160 |-> st.coinbase.h160, clean |-> TRUE,
     diff |-> static_share_difficulty]

\* session.py:518-543: after the awaits, "if a job exists, send it right away"
\* and return True; without a job the handler ends without a return statement
\* and the answer is null
handle_authorize_job(s) ==
    /\ sess[s].conn = "live"
    /\ sess[s].apc = "connected"
    /\ IF state.coinbase # NoCoinbase
       THEN /\ sess' = [sess EXCEPT ![s].apc = "idle", ![s].keepalive = TRUE,
                                      ![s].share_difficulty = static_share_difficulty]
            /\ obs' = [Sent(s, current_job_params(state)) EXCEPT
                          !.authorize.result = IF s \in watched THEN "True" ELSE @]
       ELSE /\ sess' = [sess EXCEPT ![s].apc = "idle", ![s].keepalive = TRUE]
            /\ obs' = [obs EXCEPT
                          !.authorize.result = IF s \in watched THEN "null" ELSE @]
    /\ UNCHANGED <<now, nodeHeight, zmqQueue, has_divisor, disk, feed, calc, proc, state, upd, worker_shares, watched, miners>>

\* session.py:548-583: the keepalive task finds the session inactive and sends
\* set_difficulty with getattr(self, "_share_difficulty", 1.0)
_keepalive_loop(s) ==
    /\ sess[s].conn = "live"
    /\ sess[s].keepalive
    /\ LET difficulty == IF sess[s].share_difficulty = NoDiff THEN Rat(1, 1)
                         ELSE sess[s].share_difficulty
       IN obs' = IF s \in watched THEN SetDifficulty(obs, difficulty) ELSE obs
    /\ UNCHANGED <<now, nodeHeight, zmqQueue, has_divisor, disk, feed, calc, proc, state, sess, upd, worker_shares, watched, miners>>

\* session.py:714: sent_diff = getattr(self, "_share_difficulty", 1.0) or 1.0
SentDiff(s) ==
    IF sess[s].share_difficulty.n = 0 THEN Rat(1, 1) ELSE sess[s].share_difficulty

\* session.py:711
IsBlock(hnum, target_int) == hnum <= target_int

\* session.py:718-721: share_diff = DIFF1 / max(1, hnum), rejected when
\* not a block and share_diff / sent_diff < 0.99
LowDifficulty(hnum, target_int, sent_diff) ==
    /\ ~IsBlock(hnum, target_int)
    /\ RatLess(RatDiv(Rat(DIFF1_TARGET, Max(1, hnum)), sent_diff), Rat(99, 100))

\* session.py:650-666: the fast rejects
FastReject(st, job_id) ==
    \/ job_id # st.job_counter
    \/ st.coinbase = NoCoinbase
    \/ st.prevHash_header = -1 \/ st.bits_le = -1 \/ st.target = -1

\* the miner of the observed session records the outcome of its submit
Observe(s, rec) == IF s \in watched THEN [obs EXCEPT !.submit = rec] ELSE obs

\* the parameters of a mining.submit: all there and well formed, one of them
\* missing, or extranonce2, ntime or nonce not a hex string
SubmitParams == {"ok", "missing", "malformed"}

\* session.py:585-886: handle_submit up to the submitblock round trip
handle_submit(s) ==
    /\ sess[s].conn = "live"
    /\ sess[s].bpc = "idle"
    /\ \E worker \in Workers, hnum \in Hashes, params \in SubmitParams,
          job_id \in {state.job_counter, obs.jid, obs.superseded} :
         LET sent_diff == SentDiff(s)
             rec == [NoSubmit EXCEPT !.stale = (job_id # -1 /\ job_id = obs.superseded)]
             full == [rec EXCEPT !.hnum = hnum, !.target = state.target,
                                 !.sent_diff = sent_diff]
         IN IF params = "missing"
            THEN \* session.py:623-627 raise RPCError(-32602, ...)
                 /\ obs' = Observe(s, [NoSubmit EXCEPT !.result = "error -32602"])
                 /\ UNCHANGED <<sess, worker_shares>>
            ELSE IF FastReject(state, job_id)
            THEN /\ obs' = Observe(s, [rec EXCEPT !.result = "False"])
                 /\ UNCHANGED <<sess, worker_shares>>
            ELSE IF params = "malformed"
            THEN \* session.py:672-683 bytes.fromhex raises ValueError
                 /\ obs' = Observe(s, [rec EXCEPT !.result = "exception"])
                 /\ UNCHANGED <<sess, worker_shares>>
            ELSE /\ Len(worker_shares[worker]) < MaxShares
                 /\ IF LowDifficulty(hnum, state.target, sent_diff)
                    THEN /\ worker_shares' = add_share(worker_shares, worker, FALSE)
                         /\ obs' = Observe(s, [full EXCEPT !.result = "False",
                                                           !.counted = "rejected",
                                                           !.event = "rejected"])
                         /\ UNCHANGED sess
                    ELSE /\ worker_shares' = add_share(worker_shares, worker, TRUE)
                         /\ IF IsBlock(hnum, state.target)
                            THEN /\ sess' = [sess EXCEPT ![s].bpc = "submitblock"]
                                 /\ obs' = Observe(s, [full EXCEPT !.result = "pending",
                                                                   !.counted = "accepted",
                                                                   !.event = "accepted"])
                            ELSE /\ UNCHANGED sess
                                 /\ obs' = Observe(s, [full EXCEPT !.result = "True",
                                                                   !.counted = "accepted",
                                                                   !.event = "accepted"])
    /\ UNCHANGED <<now, nodeHeight, zmqQueue, has_divisor, disk, feed, calc, proc, state, upd, watched, miners>>

\* what the node (or the HTTP layer) answers to submitblock
SubmitBlockReplies == {"null", "rejected", "error", "raise"}

\* session.py:886-1011: the answer of submitblock, the submit-history file
\* write (not guarded), the return value
SubmitOutcome(rpc, file_ok) ==
    IF rpc = "raise" \/ ~file_ok THEN "exception" ELSE "True"

handle_submit_block(s) ==
    /\ sess[s].conn = "live"
    /\ sess[s].bpc = "submitblock"
    /\ \E rpc \in SubmitBlockReplies, file_ok \in BOOLEAN :
         obs' = IF s \in watched
                THEN [obs EXCEPT !.submit.result = SubmitOutcome(rpc, file_ok),
                                 !.submit.rpc = rpc]
                ELSE obs
    /\ sess' = [sess EXCEPT ![s].bpc = "idle"]
    /\ UNCHANGED <<now, nodeHeight, zmqQueue, has_divisor, disk, feed, calc, proc, state, upd, worker_shares, watched, miners>>

\* session.py:398-402
ResetPayout(st) ==
    IF st.all_sessions = {} /\ st.new_sessions = {}
    THEN [st EXCEPT !.pub_h160 = NoneH160] ELSE st

\* session.py:476-511: handle_authorize has notified "miner connected" and
\* logged the "connected" event for this session: it got past the address
\* checks
ConnectionEvent(ss) == ss.authorized

\* session.py:346-378: connection_lost notifies "miner disconnected" and logs
\* the "disconnected" event when getattr(self, "_worker_name", None) is set
DisconnectionEvent(ss) == ss.worker_name # "none"

\* session.py:344-412: the transport is lost, the session's pending request
\* handlers are cancelled and connection_lost runs
connection_lost(s) ==
    /\ sess[s].conn = "live"
    /\ worker_shares' = remove_worker(worker_shares, sess[s].worker_name)
    /\ state' = ResetPayout([state EXCEPT !.new_sessions = @ \ {s},
                                          !.all_sessions = @ \ {s}])
    /\ sess' = [sess EXCEPT ![s].conn = "lost", ![s].keepalive = FALSE,
                            ![s].apc = "idle", ![s].bpc = "idle"]
    /\ obs' = IF s \in watched
              THEN [obs EXCEPT !.submit.result = IF @ = "pending" THEN "cancelled" ELSE @,
                               !.authorize.result = IF @ = "pending" THEN "cancelled" ELSE @]
              ELSE obs
    /\ UNCHANGED <<now, nodeHeight, zmqQueue, has_divisor, disk, feed, calc, proc, upd, watched, miners>>

\* ----------------------------------------------------------------- VarDiff
\* vardiff.py:63-68
_init_miner ==
    [difficulty |-> Rat(min_difficulty, 1), shares |-> <<>>, last_retarget |-> now,
     ema_interval |-> NoEma]

\* the MinerState of miner_id, created on first use (vardiff.py:72-73, 103-104)
MinerOf(miner_id) ==
    IF miners[miner_id] = NoMiner THEN _init_miner ELSE miners[miner_id]

\* vardiff.py:145-162: the clamp to chain_headroom * advertised_diff of
\* template.global_state; template.py defines no global_state, the import
\* raises ImportError and the except clause leaves new_diff as it is
global_state_imports == FALSE
ChainClamp(new_diff) ==
    LET cap == RatMul(state.advertised_diff, chain_headroom)
    IN IF global_state_imports /\ state.advertised_diff # NoDiff /\ RatLess(cap, new_diff)
       THEN cap ELSE new_diff

\* vardiff.py:118-170
_maybe_retarget(st) ==
    LET share_count == Len(st.shares)
        elapsed == now - st.last_retarget
        window_time == st.shares[share_count] - st.shares[1]
        avg_interval == Rat(window_time, share_count - 1)
        blended == IF st.ema_interval # NoEma
                   THEN RatNorm(RatMul(Rat(1, 2), RatAdd(avg_interval, st.ema_interval)))
                   ELSE avg_interval
        ratio == RatNorm(RatDiv(Rat(target_share_time, 1), blended))
        stepped == IF RatLess(Rat(up_step, 1), ratio)
                   THEN RatMul(st.difficulty, Rat(up_step, 1))
                   ELSE IF RatLess(ratio, down_step)
                   THEN RatMul(st.difficulty, down_step)
                   ELSE RatMul(st.difficulty, ratio)
        bounded == RatMax(Rat(min_difficulty, 1), RatMin(Rat(max_difficulty, 1), stepped))
        new_diff == RatNorm(ChainClamp(bounded))
    IN IF share_count < 2 THEN st
       ELSE IF share_count < retarget_shares /\ elapsed < retarget_time THEN st
       ELSE IF window_time <= 0 THEN st
       ELSE IF RatLeq(Rat(1, 20), RatQuot(RatNorm(RatAbs(RatSub(new_diff, st.difficulty))),
                                          st.difficulty))
       THEN [difficulty |-> new_diff, shares |-> <<>>, last_retarget |-> now,
             ema_interval |-> NoEma]
       ELSE st

\* vardiff.py:94-116: record_share(miner_id) at time.time(); a share is the
\* time it arrived at
record_share(miner_id) ==
    /\ Len(miners[miner_id].shares) < MaxWindow
    /\ LET st == MinerOf(miner_id)
           delta == now - st.shares[Len(st.shares)]
           ema == IF st.shares = <<>> THEN st.ema_interval
                  ELSE IF st.ema_interval = NoEma THEN Rat(delta, 1)
                  ELSE RatNorm(RatAdd(RatMul(ema_alpha, Rat(delta, 1)),
                                      RatMul(RatSub(Rat(1, 1), ema_alpha),
                                             st.ema_interval)))
       IN miners' = [miners EXCEPT ![miner_id] =
                        _maybe_retarget([st EXCEPT !.ema_interval = ema,
                                                   !.shares = Append(@, now)])]
    /\ UNCHANGED <<now, nodeHeight, zmqQueue, has_divisor, disk, feed, calc, proc, state, sess, upd,
                   worker_shares, watched, obs>>

\* an inactivity drop without the floor
inactivity_drop_unbounded(difficulty) ==
    RatNorm(RatMul(difficulty, inactivity_drop_factor))

\* vardiff.py:86-88 and 181-183: max(self.min_diff, st.difficulty *
\* self.inactivity_drop_factor)
inactivity_drop(difficulty) ==
    RatNorm(RatMax(Rat(min_difficulty, 1), RatMul(difficulty, inactivity_drop_factor)))

\* vardiff.py:70-92: the difficulty drops when the miner has been idle
get_difficulty(miner_id) ==
    /\ LET st == MinerOf(miner_id)
           idle == now - st.shares[Len(st.shares)]
       IN miners' = [miners EXCEPT ![miner_id] =
             IF /\ st.shares # <<>>
                /\ idle > Max(inactivity_lower, inactivity_multiples * target_share_time)
                /\ RatLess(Rat(min_difficulty, 1), st.difficulty)
             THEN [st EXCEPT !.difficulty = inactivity_drop(@),
                             !.last_retarget = now,
                             !.shares = <<>>]
             ELSE st]
    /\ UNCHANGED <<now, nodeHeight, zmqQueue, has_divisor, disk, feed, calc, proc, state, sess, upd,
                   worker_shares, watched, obs>>

\* vardiff.py:190-210 _save_state: makedirs or open() fails and the file is
\* as it was ("unwritable"); open(state_path, "w") has emptied the file and
\* json.dump raises or the process ends before the text is complete
\* ("truncated"); the text is complete ("saved").  Every exception is logged
\* at debug and swallowed
_save_state(d, ms, outcome) ==
    CASE outcome = "saved" -> [d EXCEPT !.file = "whole", !.data = Persisted(ms)]
      [] outcome = "truncated" -> [d EXCEPT !.file = "partial", !.data = NoStateFile.data]
      [] OTHER -> d

\* vardiff.py:186: if self.state_path
SaveOutcomes(d) == IF d.path THEN {"saved", "unwritable", "truncated"} ELSE {"off"}

\* vardiff.py:172-187: the periodic tick, and the save that ends it
tick ==
    /\ miners' = [m \in DOMAIN miners |->
          LET st == miners[m]
          IN IF /\ st # NoMiner
                /\ st.shares = <<>>
                /\ now - st.last_retarget > inactivity_lower
                /\ RatLess(Rat(min_difficulty, 1), st.difficulty)
             THEN [st EXCEPT !.difficulty = inactivity_drop(@),
                             !.last_retarget = now]
             ELSE st]
    /\ \E outcome \in SaveOutcomes(disk) : disk' = _save_state(disk, miners', outcome)
    /\ UNCHANGED <<now, nodeHeight, zmqQueue, has_divisor, feed, calc, proc, state, sess, upd,
                   worker_shares, watched, obs>>

\* vardiff.py:212-230 _load_state, called by __init__ (vardiff.py:58-61) when
\* the program starts again: no file, or a json.load that raises (caught and
\* logged at debug), leaves self.miners empty
Loaded(d) ==
    IF d.file = "whole" THEN d.data ELSE [m \in Workers |-> NoMiner]

_load_state ==
    /\ disk.path
    /\ disk.loads < MaxLoads
    /\ miners' = Loaded(disk)
    /\ disk' = [disk EXCEPT !.loads = @ + 1]
    /\ UNCHANGED <<now, nodeHeight, zmqQueue, has_divisor, feed, calc, proc, state, sess, upd,
                   worker_shares, watched, obs>>

\* -------------------------------------------------------- specifications
\* The program is the composition of the clock, the node, the two callers of
\* update_once and the sessions.  Each specification below is the program
\* with part of its environment quiet, so every behaviour of a specification
\* is a behaviour of the program.

\* updater.py:100-101 builds the branch of the template's txids and
\* session.py:676-678 folds the coinbase txid through it
merkle ==
    /\ calc.fn = "merkle" /\ ~calc.done
    /\ LET branch == merkle_branch_for_index0(calc.txids)
       IN calc' = [calc EXCEPT !.done = TRUE,
                               !.root = merkle_root_from_txids_le(calc.txids),
                               !.branch = branch,
                               !.folded = fold_branch_index0(calc.txids[1], branch)]
    /\ UNCHANGED <<now, nodeHeight, zmqQueue, has_divisor, disk, proc, feed, state, sess, upd, worker_shares, obs, watched, miners>>

\* coinbase.py:55: build_coinbase encodes the height of the template
bip34 ==
    /\ calc.fn = "bip34" /\ ~calc.done
    /\ calc' = [calc EXCEPT !.done = TRUE, !.out = encode_height_bip34(calc.height)]
    /\ UNCHANGED <<now, nodeHeight, zmqQueue, has_divisor, disk, proc, feed, state, sess, upd, worker_shares, obs, watched, miners>>

\* updater.py:73-92 builds the coinbase of the template and session.py:672-677
\* puts the submit's extranonces between its two parts and hashes the result
coinbase ==
    /\ calc.fn = "coinbase" /\ ~calc.done
    /\ LET built == build_coinbase(calc.pub_h160, calc.height, calc.arbitrary,
                                   calc.miner_value, calc.outputs_extra)
           coinbase_nowit ==
               built.coinbase1_nowit \o calc.en1 \o calc.en2 \o built.coinbase2_nowit
       IN calc' = [calc EXCEPT !.done = TRUE, !.built = built,
                               !.coinbase_nowit = coinbase_nowit,
                               !.coinbase_txid_le = dsha256(coinbase_nowit)]
    /\ UNCHANGED <<now, nodeHeight, zmqQueue, has_divisor, disk, proc, feed, state, sess, upd, worker_shares, obs, watched, miners>>

\* session.py:672-721 handle_submit from the decoded parameters to the verdict
\* on the share: the coinbase and the header are put together from the
\* template (a coinbase for height 1, target 5) and the submit's bytes, and
\* the share is accepted when its hash meets the block target or the
\* difficulty sent (1.0)
build_header ==
    /\ calc.fn = "header" /\ ~calc.done
    /\ LET built == build_coinbase(Repeat(17, 20), 1, <<>>, 0, <<>>)
           en1 == calc.extranonce1
           en2 == calc.extranonce2
           coinbase_nowit == built.coinbase1_nowit \o en1 \o en2 \o built.coinbase2_nowit
           ntime_le == Reverse(calc.ntime)
           nonce_le == Reverse(calc.nonce)
           header80 == build_header80_le(1, Digest, Digest, ntime_le,
                                         Repeat(29, 4), nonce_le)
       IN calc' = [calc EXCEPT !.done = TRUE, !.coinbase_nowit = coinbase_nowit,
                               !.header80 = header80,
                               !.result = ~LowDifficulty(calc.hnum, NodeTarget(1),
                                                         static_share_difficulty)]
    /\ UNCHANGED <<now, nodeHeight, zmqQueue, has_divisor, disk, proc, feed, state, sess, upd, worker_shares, obs, watched, miners>>

\* -------------------------------------------------------------- share feed
\* asyncio.Queue.put_nowait on a queue of maxsize _client_queue_size: the
\* queue with the message, or QueueFull
put_nowait(queue, message) ==
    IF Len(queue) >= _client_queue_size
    THEN [full |-> TRUE, queue |-> queue]
    ELSE [full |-> FALSE, queue |-> Append(queue, message)]

\* share_feed.py:128-132 kept without its removal
KeepClients(clients, disconnected) == clients

\* share_feed.py:128-132: self.connected_clients -= disconnected
DropClients(clients, disconnected) == clients \ disconnected

\* api.py:1426-1430 and share_feed.py:306-310: a WebSocket handler creates its
\* queue and registers it
register_client(c) ==
    /\ c \notin feed.created
    /\ feed' = [feed EXCEPT !.created = @ \cup {c},
                            !.connected_clients = @ \cup {c}]
    /\ UNCHANGED <<now, nodeHeight, zmqQueue, has_divisor, disk, proc, calc, state, sess, upd, worker_shares, obs, watched, miners>>

\* api.py:1446-1454: the handler takes the next message off its queue and
\* sends it
websocket_shares(c) ==
    /\ c \in feed.created \ feed.closed
    /\ feed.queues[c] # <<>>
    /\ feed' = [feed EXCEPT !.queues[c] = Tail(@)]
    /\ UNCHANGED <<now, nodeHeight, zmqQueue, has_divisor, disk, proc, calc, state, sess, upd, worker_shares, obs, watched, miners>>

\* api.py:1452-1465 and share_feed.py:312-316: a send fails, the handler
\* leaves its loop and unregisters its queue
unregister_client(c) ==
    /\ c \in feed.created \ feed.closed
    /\ feed' = [feed EXCEPT !.closed = @ \cup {c},
                            !.connected_clients = @ \ {c}]
    /\ UNCHANGED <<now, nodeHeight, zmqQueue, has_divisor, disk, proc, calc, state, sess, upd, worker_shares, obs, watched, miners>>

\* share_feed.py:38-98 ShareFeedManager.add_share, the task handle_submit
\* creates (session.py:754, 833): the share gets id len(self.shares), and its
\* _broadcast is scheduled when there are clients
ShareFeedManager_add_share ==
    /\ feed.shares < MaxEvents
    /\ feed' = [feed EXCEPT !.shares = @ + 1,
                            !.tasks = IF feed.connected_clients # {}
                                      THEN Append(@, feed.shares) ELSE @]
    /\ UNCHANGED <<now, nodeHeight, zmqQueue, has_divisor, disk, proc, calc, state, sess, upd, worker_shares, obs, watched, miners>>

\* share_feed.py:100-135 ShareFeedManager._broadcast, the oldest scheduled
\* one. Nothing holds the lock across an await, so acquiring it does not
\* suspend and the loop and the removal are one step
_broadcast ==
    /\ feed.tasks # <<>>
    /\ LET message == Head(feed.tasks)
           put == [c \in Clients |-> put_nowait(feed.queues[c], message)]
           disconnected == {c \in feed.connected_clients : put[c].full}
       IN feed' = [feed EXCEPT
                     !.tasks = Tail(@),
                     !.queues = [c \in Clients |->
                                   IF c \in feed.connected_clients
                                   THEN put[c].queue ELSE @[c]],
                     !.connected_clients = DropClients(@, disconnected)]
    /\ UNCHANGED <<now, nodeHeight, zmqQueue, has_divisor, disk, proc, calc, state, sess, upd, worker_shares, obs, watched, miners>>

\* ----------------------------------------------------------------- process
\* listener.py:74
max_consecutive_errors == 5

\* main() is in asyncio.wait (run.py:201): its tasks are scheduled
Waiting == proc.main = "waiting"

\* server.py:79-95 start_server: serve_rs binds the listen port and the task
\* stays in serve_forever, or the bind fails and the task ends with the OSError
start_server ==
    /\ Waiting /\ proc.server = "starting"
    /\ \E bound \in BOOLEAN :
         proc' = [proc EXCEPT !.server = IF bound THEN "serving" ELSE "raised"]
    /\ UNCHANGED <<now, nodeHeight, zmqQueue, has_divisor, disk, feed, calc, state, sess, upd, worker_shares, obs, watched, miners>>

\* listener.py:34-69 ZMQListener.start: the SUB socket is created, configured
\* and connected and the task awaits _listen_loop, or one of these calls raises
\* and the except clause stops the listener and re-raises
start ==
    /\ Waiting /\ proc.listener = "starting"
    /\ \E connected \in BOOLEAN :
         proc' = [proc EXCEPT !.listener = IF connected THEN "listening" ELSE "raised"]
    /\ UNCHANGED <<now, nodeHeight, zmqQueue, has_divisor, disk, feed, calc, state, sess, upd, worker_shares, obs, watched, miners>>

\* a limit that is passed one error late
TooManyErrorsLate(consecutive_errors) == consecutive_errors > max_consecutive_errors

\* listener.py:116, 130: if consecutive_errors >= max_consecutive_errors: break
TooManyErrors(consecutive_errors) == consecutive_errors >= max_consecutive_errors

\* listener.py:114-143 _listen_loop: recv_multipart raises an error other than
\* the receive timeout; the fifth consecutive one breaks the loop, start
\* returns and the task is done without an exception
_listen_loop ==
    /\ Waiting /\ proc.listener = "listening"
    /\ LET consecutive_errors == proc.consecutive_errors + 1
       IN proc' = [proc EXCEPT !.consecutive_errors = consecutive_errors,
                               !.listener = IF TooManyErrors(consecutive_errors)
                                            THEN "ended" ELSE @]
    /\ UNCHANGED <<now, nodeHeight, zmqQueue, has_divisor, disk, feed, calc, state, sess, upd, worker_shares, obs, watched, miners>>

\* run.py:201-203: asyncio.wait(tasks, return_when=FIRST_EXCEPTION) returns
\* when a task has ended with an exception; main returns and asyncio.run
\* cancels the tasks that are left
main ==
    /\ Waiting
    /\ "raised" \in {proc.updater, proc.server, proc.listener}
    /\ proc' = [proc EXCEPT !.main = "exited"]
    /\ UNCHANGED <<now, nodeHeight, zmqQueue, has_divisor, disk, feed, calc, state, sess, upd, worker_shares, obs, watched, miners>>

\* one observed miner submitting shares against the jobs of the polling loop
NextShare ==
    \/ Tick(MaxTicks)
    \/ NewBlock
    \/ state_updater_loop
    \/ update_once_apply("poll")
    \/ update_once_send_all("poll", Miner)
    \/ Connect(Miner)
    \/ handle_subscribe(Miner)
    \/ handle_authorize_as(Miner, MinerAddresses)
    \/ handle_authorize_job(Miner)
    \/ handle_submit(Miner)
    \/ handle_submit_block(Miner)
    \/ connection_lost(Miner)

InitShare == Init /\ disk = NoStatePath /\ watched = {Miner} /\ proc = StartedTasks /\ calc = NoCalc
SpecShare == InitShare /\ [][NextShare]_vars

\* one observed miner that connects and submits but does not authorize, next
\* to the miners that authorize
NextGuest ==
    \/ NewBlock
    \/ state_updater_loop
    \/ update_once_apply("poll")
    \/ \E s \in Sessions \ {Miner} : update_once_send_all("poll", s)
    \/ update_once_send_new("poll", Miner)
    \/ \E s \in Sessions : Connect(s)
    \/ handle_subscribe(Miner)
    \/ \E s \in Sessions \ {Miner} : handle_authorize(s)
    \/ \E s \in Sessions \ {Miner} : handle_authorize_job(s)
    \/ handle_submit(Miner)
    \/ handle_submit_block(Miner)
    \/ \E s \in Sessions : connection_lost(s)

InitGuest == Init /\ disk = NoStatePath /\ watched = {Miner} /\ proc = StartedTasks /\ calc = NoCalc
SpecGuest == InitGuest /\ [][NextGuest]_vars

\* the sessions coming and going while the polling loop publishes jobs
NextFanOut ==
    \/ NewBlock
    \/ state_updater_loop
    \/ update_once_apply("poll")
    \/ \E s \in Sessions : update_once_send_all("poll", s)
    \/ \E s \in Sessions : update_once_send_new("poll", s)
    \/ \E s \in Sessions : Connect(s)
    \/ \E s \in Sessions : handle_subscribe(s)
    \/ \E s \in Sessions : handle_authorize(s)
    \/ \E s \in Sessions : handle_authorize_job(s)
    \/ \E s \in Sessions : connection_lost(s)

InitFanOut == Init /\ disk = NoStatePath /\ watched = Nobody /\ proc = StartedTasks /\ calc = NoCalc
SpecFanOut == InitFanOut /\ [][NextFanOut]_vars

\* one observed miner, the polling loop and the ZMQ listener
NextZmq ==
    \/ Tick(MaxTicks)
    \/ NewBlock
    \/ state_updater_loop
    \/ on_rxd_block
    \/ \E u \in Updaters : update_once_apply(u)
    \/ \E u \in Updaters : update_once_send_all(u, Miner)
    \/ Connect(Miner)
    \/ handle_subscribe(Miner)
    \/ handle_authorize(Miner)
    \/ handle_authorize_job(Miner)
    \/ _keepalive_loop(Miner)
    \/ connection_lost(Miner)

InitZmq == Init /\ disk = NoStatePath /\ watched = {Miner} /\ proc = StartedTasks /\ calc = NoCalc
SpecZmq == InitZmq /\ [][NextZmq]_vars

\* the miners authorizing and leaving while the polling loop publishes the
\* jobs of one block
NextPayout ==
    \/ state_updater_loop
    \/ update_once_apply("poll")
    \/ \E s \in Sessions : update_once_send_all("poll", s)
    \/ \E s \in Sessions : Connect(s)
    \/ \E s \in Sessions : handle_authorize(s)
    \/ \E s \in Sessions : handle_authorize_job(s)
    \/ \E s \in Sessions : connection_lost(s)

InitPayout == Init /\ disk = NoStatePath /\ watched = Nobody /\ proc = StartedTasks /\ calc = NoCalc
SpecPayout == InitPayout /\ [][NextPayout]_vars

\* the VarDiffManager of one miner next to a template that gets published
NextVD ==
    \/ Tick(MaxTicksVD)
    \/ state_updater_loop
    \/ update_once_apply("poll")
    \/ update_once_send_all("poll", Miner)
    \/ Connect(Miner)
    \/ handle_authorize(Miner)
    \/ \E m \in Workers : record_share(m)
    \/ \E m \in Workers : get_difficulty(m)
    \/ tick

InitVD == Init /\ disk = NoStatePath /\ watched = Nobody /\ proc = StartedTasks /\ calc = NoCalc
SpecVD == InitVD /\ [][NextVD]_vars

\* one observed miner and the polling loop, within one second
NextSession ==
    \/ NewBlock
    \/ state_updater_loop
    \/ update_once_apply("poll")
    \/ update_once_send_all("poll", Miner)
    \/ Connect(Miner)
    \/ handle_subscribe(Miner)
    \/ handle_authorize_as(Miner, {"a1"} \cup BadAddresses)
    \/ handle_authorize_job(Miner)
    \/ _keepalive_loop(Miner)
    \/ connection_lost(Miner)

InitSession == Init /\ disk = NoStatePath /\ watched = {Miner} /\ proc = StartedTasks /\ calc = NoCalc
SpecSession == InitSession /\ [][NextSession]_vars

\* the miners connecting, subscribing, authorizing and leaving before any
\* template has been fetched
NextSubscribe ==
    \/ \E s \in Sessions : Connect(s)
    \/ \E s \in Sessions : handle_subscribe(s)
    \/ \E s \in Sessions : handle_authorize(s)
    \/ \E s \in Sessions : handle_authorize_job(s)
    \/ \E s \in Sessions : connection_lost(s)

InitSubscribe == Init /\ disk = NoStatePath /\ watched = Nobody /\ proc = StartedTasks /\ calc = NoCalc
SpecSubscribe == InitSubscribe /\ [][NextSubscribe]_vars

\* the process from the creation of its tasks: the node, the poller with its
\* getblocktemplate failures, the listener with its socket failures and one
\* miner whose connection is lost
NextProcess ==
    \/ NewBlock
    \/ start_server
    \/ start
    \/ _listen_loop
    \/ main
    \/ Waiting /\ state_updater_loop
    \/ Waiting /\ proc.listener = "listening" /\ on_rxd_block
    \/ \E u \in Updaters : Waiting /\ update_once_apply(u)
    \/ Waiting /\ proc.server = "serving" /\ Connect(Miner)
    \/ Waiting /\ handle_authorize_as(Miner, {"a1"})
    \/ Waiting /\ handle_authorize_job(Miner)
    \/ Waiting /\ connection_lost(Miner)

InitProcess == Init /\ disk = NoStatePath /\ watched = {Miner} /\ proc = CreatedTasks /\ has_divisor = FALSE /\ calc = NoCalc
SpecProcess == InitProcess /\ [][NextProcess]_vars

\* the share feed: shares arrive from the submit path while WebSocket clients
\* register, read at their own pace and go away
NextFeed ==
    \/ \E c \in Clients : register_client(c)
    \/ \E c \in Clients : websocket_shares(c)
    \/ \E c \in Clients : unregister_client(c)
    \/ ShareFeedManager_add_share
    \/ _broadcast

InitFeed == Init /\ disk = NoStatePath /\ watched = Nobody /\ proc = StartedTasks /\ calc = NoCalc /\ has_divisor = FALSE
SpecFeed == InitFeed /\ [][NextFeed]_vars

\* the merkle functions applied to every transaction-id list within the bounds
NextMerkle == merkle

InitMerkle == Init /\ disk = NoStatePath /\ watched = Nobody /\ proc = StartedTasks /\ calc \in MerkleCalls /\ has_divisor = FALSE
SpecMerkle == InitMerkle /\ [][NextMerkle]_vars

\* encode_height_bip34 applied to every height within the bounds
NextBip34 == bip34

InitBip34 == Init /\ disk = NoStatePath /\ watched = Nobody /\ proc = StartedTasks /\ calc \in Bip34Calls /\ has_divisor = FALSE
SpecBip34 == InitBip34 /\ [][NextBip34]_vars

\* build_coinbase applied to every argument list within the bounds
NextCoinbase == coinbase

InitCoinbase == Init /\ disk = NoStatePath /\ watched = Nobody /\ proc = StartedTasks /\ calc \in CoinbaseCalls /\ has_divisor = FALSE
SpecCoinbase == InitCoinbase /\ [][NextCoinbase]_vars

\* the two session sets under both callers of update_once: the polling loop
\* and the hashblock callback fan out while sessions subscribe, authorize and
\* go away
NextSets ==
    \/ NewBlock
    \/ state_updater_loop
    \/ on_rxd_block
    \/ \E u \in Updaters : update_once_apply(u)
    \/ \E u \in Updaters, s \in Sessions : update_once_send_all(u, s)
    \/ \E u \in Updaters, s \in Sessions : update_once_send_new(u, s)
    \/ \E s \in Sessions : Connect(s)
    \/ \E s \in Sessions : handle_subscribe(s)
    \/ \E s \in Sessions : handle_authorize_as(s, {"a1"})
    \/ \E s \in Sessions : handle_authorize_job(s)
    \/ \E s \in Sessions : connection_lost(s)

InitSets == Init /\ disk = NoStatePath /\ watched = Nobody /\ proc = StartedTasks /\ calc = NoCalc /\ has_divisor = TRUE
SpecSets == InitSets /\ [][NextSets]_vars

\* the VarDiffManager of one miner whose shares come and then stop: the
\* session asks for its difficulty and the tick task runs as time passes
NextIdle ==
    \/ Tick(MaxTicksVD)
    \/ \E m \in Workers : record_share(m)
    \/ \E m \in Workers : get_difficulty(m)
    \/ tick

InitIdle == Init /\ disk = NoStatePath /\ watched = Nobody /\ proc = StartedTasks /\ calc = NoCalc /\ has_divisor = FALSE
SpecIdle == InitIdle /\ [][NextIdle]_vars

\* the VarDiffManager of one miner with a state file, and the program
\* starting again from that file
NextDisk ==
    \/ Tick(MaxTicksVD)
    \/ \E m \in Workers : record_share(m)
    \/ \E m \in Workers : get_difficulty(m)
    \/ tick
    \/ _load_state

InitDisk == Init /\ disk = NoStateFile /\ watched = Nobody /\ proc = StartedTasks /\ calc = NoCalc /\ has_divisor = FALSE
SpecDisk == InitDisk /\ [][NextDisk]_vars

\* one observed miner that authorizes under the address a2 and submits shares
\* naming the worker a1, within one second of one block
NextWorkers ==
    \/ state_updater_loop
    \/ update_once_apply("poll")
    \/ update_once_send_all("poll", Miner)
    \/ Connect(Miner)
    \/ handle_authorize_as(Miner, {"a2"})
    \/ handle_authorize_job(Miner)
    \/ handle_submit(Miner)
    \/ handle_submit_block(Miner)

InitWorkers == Init /\ disk = NoStatePath /\ watched = {Miner} /\ proc = StartedTasks /\ calc = NoCalc
SpecWorkers == InitWorkers /\ [][NextWorkers]_vars

\* the header and coinbase of every submit within the bounds
NextHeader == build_header

InitHeader == Init /\ disk = NoStatePath /\ watched = Nobody /\ proc = StartedTasks /\ calc \in SubmitCalls /\ has_divisor = FALSE
SpecHeader == InitHeader /\ [][NextHeader]_vars

\* ------------------------------------------------------------------ claims

\* C1: after a clean notify, a submit that quotes the job id of the job the
\* miner held before is rejected: it returns false and no share is recorded
C1_CleanSupersedes ==
    obs.submit.stale => (obs.submit.result = "False" /\ obs.submit.counted = "none")

\* C2: a submit on a session that has not completed mining.authorize does not
\* return true and adds no accepted share to the hashrate tracker
C2_NoShareBeforeAuthorize ==
    ~sess[Miner].authorized =>
        (obs.submit.result # "True" /\ obs.submit.counted # "accepted")

\* C3: a live session whose mining.authorize has completed is in all_sessions,
\* the set every published job is delivered to, also when it authorized
\* while a fan-out was in progress
C3_AuthorizedStaysInAllSessions ==
    \A s \in Sessions :
        (sess[s].authorized /\ sess[s].conn = "live" /\ sess[s].apc = "idle")
            => s \in state.all_sessions

\* C4: once connection_lost has run for every session that connected and no
\* refresh is mid-way, the payout is unset and both session sets are empty
C4_PayoutClearedAfterLastDisconnect ==
    ( /\ \E s \in Sessions : sess[s].conn = "lost"
      /\ \A s \in Sessions : sess[s].conn # "live"
      /\ \A u \in Updaters : upd[u].pc = "idle" )
    => ( /\ state.pub_h160 = NoneH160
         /\ state.all_sessions = {}
         /\ state.new_sessions = {} )

\* C5: a mining.authorize with a valid address makes that address's hash160
\* the payout when none is set and leaves the payout unchanged when one is set
C5_AuthorizeClaimsUnsetPayoutOnly ==
    [][\A s \in Sessions :
          (sess[s].apc = "idle" /\ sess'[s].apc = "connected")
              => state'.pub_h160 =
                    IF state.pub_h160 = NoneH160
                    THEN b58decode_check(sess'[s].worker_name).h160
                    ELSE state.pub_h160]_vars

\* two miners have authorized with different valid addresses and the payout
\* is still the first one's
C5_Witness ==
    /\ sess[1].authorized /\ sess[1].worker_name = "a1" /\ sess[1].conn = "live"
    /\ sess[2].authorized /\ sess[2].worker_name = "a2" /\ sess[2].conn = "live"
    /\ state.pub_h160 = b58decode_check("a1").h160

\* a mining.notify is sent to the live session s in this step
NotifyTo(s) ==
    /\ sess[s].conn = "live"
    /\ \/ handle_authorize_job(s) /\ state.coinbase # NoCoinbase
       \/ \E u \in Updaters : update_once_send_all(u, s)
       \/ \E u \in Updaters : update_once_send_new(u, s)

\* C6: while the payout is unset no step changes the job id, the coinbase or
\* the merkle branch, and no mining.notify is sent to any session
C6_NoJobWithoutPayout ==
    [][state.pub_h160 = NoneH160 =>
          /\ state'.job_counter = state.job_counter
          /\ state'.coinbase = state.coinbase
          /\ state'.merkle_branches = state.merkle_branches
          /\ \A s \in Sessions : ~NotifyTo(s)]_vars

\* C7: an answered submit on the active job is submitted as a block iff
\* h <= T, returns true iff it is a block or diff1 / max(1, h) >= 0.99 d, and
\* returns false otherwise
C7_ShareClassification ==
    LET h == obs.submit.hnum
        T == obs.submit.target
        d == obs.submit.sent_diff
        block == h <= T
        valid == block \/ 100 * DIFF1_TARGET * d.d >= 99 * d.n * (IF h < 1 THEN 1 ELSE h)
    IN (obs.submit.counted # "none" /\ obs.submit.result \notin {"pending", "cancelled"})
          => /\ obs.submit.result = IF valid THEN "True" ELSE "False"
             /\ block <=> obs.submit.rpc # "none"

\* C8: when the node answers submitblock with a non-null result or an error,
\* mining.submit returns true and the share stays counted as accepted
C8_NodeRejectionKeepsShare ==
    obs.submit.rpc \in {"rejected", "error"}
        => (obs.submit.result = "True" /\ obs.submit.counted = "accepted")

\* C9: every miner's VarDiff difficulty is at least min_diff and at most
\* min(max_diff, chain_headroom * network_diff), the network difficulty being
\* the one of the published template
C9_VarDiffBounds ==
    \A m \in DOMAIN miners :
        miners[m] # NoMiner =>
            /\ RatLeq(Rat(min_difficulty, 1), miners[m].difficulty)
            /\ RatLeq(miners[m].difficulty, Rat(max_difficulty, 1))
            /\ state.advertised_diff # NoDiff =>
                   RatLeq(miners[m].difficulty,
                          RatMul(chain_headroom, state.advertised_diff))

\* C10: when the refresh triggered by a hashblock message completes, a miner
\* that was live and authorized when the message arrived, and is still live,
\* has been sent a clean notify with a job id greater than the one it held
C10_ZmqRefreshNotifies ==
    [][( /\ upd["zmq"].pc # "idle" /\ upd'["zmq"].pc = "idle"
         /\ obs.held # -2
         /\ sess'[Miner].conn = "live" )
          => obs'.seen]_vars

\* C11: a call of update_once publishes a new job (a new job id, the coinbase
\* and merkle branch rebuilt from the fetched template, the fan-out started)
\* exactly when a payout is set and the fetched height differs from the
\* previous one or ntime_roll seconds have passed since the last publish;
\* otherwise it leaves the published job as it is
C11_PublishExactlyWhenDue ==
    [][\A u \in Updaters :
          (upd[u].pc = "fetched" /\ upd'[u].pc # "fetched") =>
              LET height_int == upd[u].fetched
                  due == /\ state.pub_h160 # NoneH160
                         /\ \/ state.height # height_int
                            \/ state.timestamp = -1
                            \/ state.timestamp + ROLL_SECONDS <= now
              IN IF due
                 THEN /\ state'.job_counter # state.job_counter
                      /\ state'.coinbase = [h160 |-> state.pub_h160, height |-> height_int]
                      /\ state'.merkle_branches = height_int
                      /\ \/ upd'[u].pc = "fanout"
                         \/ state.all_sessions \cup state.new_sessions = {}
                 ELSE /\ state'.job_counter = state.job_counter
                      /\ state'.coinbase = state.coinbase
                      /\ state'.merkle_branches = state.merkle_branches]_vars

\* C12: a miner that has received a mining.notify has received a
\* mining.set_difficulty before it, and the difficulty of the latest
\* set_difficulty is the one the session validates its shares against
C12_NotifyFollowsSetDifficulty ==
    obs.jid # -1 =>
        /\ ~obs.bare
        /\ obs.set_difficulty # NoDiff
        /\ sess[Miner].conn = "live" => SentDiff(Miner) = obs.set_difficulty

\* the miner holds a job of the fan-out, sent at the divisor difficulty, after
\* it held the job sent at authorize
C12_Witness ==
    /\ obs.jid # -1 /\ obs.superseded # -1
    /\ sess[Miner].conn = "live"
    /\ obs.set_difficulty = RatDiv(state.advertised_diff, Rat(DivisorValue, 1))
    /\ obs.set_difficulty # static_share_difficulty

\* C13: a miner that has received a mining.set_difficulty or a mining.notify
\* has completed mining.subscribe on its session, which then has an
\* extranonce1
C13_NotifyOnlyAfterSubscribe ==
    (obs.set_difficulty # NoDiff \/ obs.jid # -1) => sess[Miner].extranonce1 # 0

\* C14: a mining.authorize with a valid address that has been answered was
\* answered true, whether or not a job was ready
C14_AuthorizeReturnsTrue ==
    (obs.authorize.valid /\ obs.authorize.result \notin {"pending", "cancelled"})
        => obs.authorize.result = "True"

\* C15: a mining.authorize whose address fails base58check decoding, has a
\* version byte of another network or a hash that is not 20 bytes long is
\* answered with error code 20; the session stays connected, the payout and
\* both session sets stay as they are, the session is not promoted, no job is
\* sent and no keepalive task is started
C15_BadAddressRejected ==
    [][\A s \in Sessions :
          LET addr_decoded == b58decode_check(sess'[s].worker_name)
              bad == \/ ~addr_decoded.ok
                     \/ addr_decoded.version \notin {0, 5}
                     \/ addr_decoded.len # 20
          IN (handle_authorize_as(s, Addresses \cup BadAddresses) /\ bad) =>
                /\ s \in watched => obs'.authorize = [valid |-> FALSE, result |-> "error 20"]
                /\ sess'[s].conn = "live"
                /\ state'.pub_h160 = state.pub_h160
                /\ state'.all_sessions = state.all_sessions
                /\ state'.new_sessions = state.new_sessions
                /\ sess'[s].authorized = sess[s].authorized
                /\ sess'[s].apc = sess[s].apc
                /\ sess'[s].keepalive = sess[s].keepalive
                /\ <<obs'.jid, obs'.height, obs'.set_difficulty>>
                      = <<obs.jid, obs.height, obs.set_difficulty>>]_vars

\* the miner has been refused an address with a 21-byte hash, on a subscribed
\* session, while the payout of its earlier authorize stands
C15_Witness ==
    /\ obs.authorize = [valid |-> FALSE, result |-> "error 20"]
    /\ sess[Miner].worker_name = "long"
    /\ sess[Miner].conn = "live"
    /\ sess[Miner].authorized
    /\ Miner \in state.all_sessions
    /\ state.pub_h160 = b58decode_check("a1").h160

\* C16: every mining.submit that has been answered ended in true, false or a
\* JSON-RPC error (-32602 for missing parameters), never in an exception
\* leaving the handler, and the session is still connected
C16_SubmitNeverRaises ==
    obs.submit.result \in {"none", "pending", "cancelled", "True", "False", "error -32602"}

\* C17: a submission that is rejected (wrong job id, template not ready or
\* insufficient difficulty) is answered false, a share event with
\* accepted=false is emitted for it, and the session stays connected
C17_RejectionEmitsEvent ==
    [][(handle_submit(Miner) /\ obs'.submit.result = "False")
          => (obs'.submit.event = "rejected" /\ sess'[Miner].conn = "live")]_vars

\* C18: the extranonce1 values allocated at mining.subscribe are pairwise
\* distinct across the live sessions, also when a session subscribes again
\* and when the counter passes what 4 bytes hold
C18_Extranonce1Unique ==
    \A s1, s2 \in Sessions :
        ( /\ s1 # s2
          /\ sess[s1].conn = "live" /\ sess[s2].conn = "live"
          /\ sess[s1].extranonce1 # 0 /\ sess[s2].extranonce1 # 0 )
        => sess[s1].extranonce1 # sess[s2].extranonce1

\* two live sessions hold an extranonce1, one of them from its second
\* subscribe, and a subscribe has failed on the width of the counter
C18_Witness ==
    /\ sess[1].conn = "live" /\ sess[2].conn = "live"
    /\ sess[1].extranonce1 = 2 /\ sess[2].extranonce1 = 1
    /\ state.bits_counter >= EXTRANONCE1_SPACE

\* C19: with VarDiff disabled every mining.set_difficulty a miner receives, at
\* authorize, at a template fan-out or from the keepalive task, carries the
\* network difficulty of the current template divided by the share divisor
C19_FixedRatioDifficulty ==
    [][obs'.set_difficulty # obs.set_difficulty =>
          obs'.set_difficulty = RatDiv(state'.advertised_diff, Rat(DivisorValue, 1))]_vars

\* C20: a transport failure (a ZMQ socket or listener failure, a node RPC
\* error, a lost miner connection) never ends the process: main() returns only
\* when the Stratum server task failed to bind its listen port
C20_OnlyBindFailureIsFatal ==
    proc.main = "exited" => proc.server = "raised"

\* C21: broadcasting a share event never blocks: a scheduled broadcast can
\* always run, whatever the queues hold; no queue grows beyond its bound; a
\* subscriber whose queue is full when the event is offered is removed and its
\* queue is left as it was; every other subscriber gets the event at the end of
\* its queue and stays subscribed; and a queue that is not subscribed never
\* gains an event
C21_BroadcastDropsFullSubscribers ==
    /\ [](\A c \in Clients : Len(feed.queues[c]) <= _client_queue_size)
    /\ [](feed.tasks # <<>> => ENABLED _broadcast)
    /\ [][/\ \A c \in Clients \ feed.connected_clients :
                Len(feed'.queues[c]) <= Len(feed.queues[c])
          /\ _broadcast =>
               \A c \in feed.connected_clients :
                  IF Len(feed.queues[c]) >= _client_queue_size
                  THEN /\ c \notin feed'.connected_clients
                       /\ feed'.queues[c] = feed.queues[c]
                  ELSE /\ c \in feed'.connected_clients
                       /\ feed'.queues[c] = Append(feed.queues[c], Head(feed.tasks))]_vars

\* a subscriber was dropped with a full queue, and the other one has received
\* an event offered after the drop
C21_Witness ==
    /\ 1 \in feed.created \ (feed.closed \cup feed.connected_clients)
    /\ Len(feed.queues[1]) = _client_queue_size
    /\ 2 \in feed.connected_clients
    /\ feed.queues[2] # <<>>
    /\ \A i \in 1..Len(feed.queues[1]) :
          feed.queues[1][i] < feed.queues[2][Len(feed.queues[2])]
    /\ feed.tasks = <<>>

\* C22: for every transaction-id list of at least one element, folding its
\* first element through its index-0 branch gives its merkle root; for a list
\* of one element the branch is empty and the fold is the leaf
C22_MerkleRoundTrip ==
    (calc.fn = "merkle" /\ calc.done) =>
        /\ calc.folded = calc.root
        /\ Len(calc.txids) = 1 => (calc.branch = <<>> /\ calc.folded = calc.txids[1])

\* a list of odd length above one, whose last element is duplicated on the way
C22_Witness ==
    /\ calc.fn = "merkle" /\ calc.done
    /\ Len(calc.txids) = 3
    /\ Len(calc.branch) = 2
    /\ calc.root = dsha256(<<dsha256(<<calc.txids[1], calc.txids[2]>>),
                             dsha256(<<calc.txids[3], calc.txids[3]>>)>>)

\* C24: encode_height_bip34 gives the single byte 0x00 for height 0, the single
\* byte 0x50 + h for 1 <= h <= 16, and for h >= 17 the push opcode of k and
\* then the k bytes of h, least significant first, where k is the smallest
\* number of bytes that leaves the sign bit clear; 500000 gives 03 20 A1 07
C24_Bip34Height ==
    (calc.fn = "bip34" /\ calc.done) =>
        LET h == calc.height
            fits(n) == n = 4 \/ h < 2 ^ (8 * n - 1)
            k == CHOOSE n \in 1..4 : fits(n) /\ \A m \in 1..(n - 1) : ~fits(m)
        IN /\ h = 0 => calc.out = <<0>>
           /\ (1 <= h /\ h <= 16) => calc.out = <<80 + h>>
           /\ h >= 17 => calc.out = <<k>> \o to_bytes_little(h, k)
           /\ h = 500000 => calc.out = <<3, 32, 161, 7>>

\* a height whose top bit is set in its last byte, so that a zero byte follows
C24_Witness ==
    /\ calc.fn = "bip34" /\ calc.done
    /\ calc.height = 128
    /\ calc.out = <<2, 128, 0>>

\* C23: for every build_coinbase input and every 8-byte extranonce, coinbase1
\* followed by the extranonce and coinbase2 is the serialized coinbase the
\* builder returns and its double SHA-256 is the coinbase_txid the builder
\* returns; the extranonce lies inside the input script, whose announced
\* length is the height script plus the arbitrary push plus 8
C23_CoinbaseSplit ==
    (calc.fn = "coinbase" /\ calc.done) =>
        LET b == calc.built
            script == encode_height_bip34(calc.height)
                      \o op_push(Len(calc.arbitrary)) \o calc.arbitrary
            \* version, input count, previous output, and its index
            head == 4 + 1 + 32 + 4
        IN /\ calc.coinbase_nowit = b.coinbase_tx
           /\ calc.coinbase_txid_le = b.coinbase_txid
           /\ SubSeq(b.coinbase1, head + 1, Len(b.coinbase1))
                = var_int(Len(script) + 8) \o script
           /\ SubSeq(b.coinbase2, 1, 4) = Repeat(255, 4)

\* C25: template refreshes are serialized: at no time are two update_once
\* calls in progress, and the refresh of a hashblock message does not start
\* while the refresh of the polling loop is between its getblocktemplate call
\* and the end of its fan-out
C25_RefreshesSerialized ==
    ~(upd["poll"].pc # "idle" /\ upd["zmq"].pc # "idle")

\* C26: a submit that is validated (it passed the job id and the readiness
\* checks and its hash was compared with the target) builds its header from
\* the prev-hash, bits, merkle branch and coinbase of one template, the one
\* the current job was published from, and compares it with that template's
\* target
C26_SubmitSeesOneTemplate ==
    [][(handle_submit(Miner) /\ obs'.submit.hnum # -1) =>
          LET published == state.coinbase.height
          IN /\ state.prevHash_header = published
             /\ state.bits_le = published
             /\ state.merkle_branches = published
             /\ state.target = NodeTarget(published)]_vars

\* C27: every job sent to a live session, at authorize or in a fan-out, has a
\* coinbase whose output 0 pays the payout hash160 that is set when the job is
\* sent
C27_JobPaysCurrentPayout ==
    [][\A s \in Sessions :
          /\ (handle_authorize_job(s) /\ state.coinbase # NoCoinbase)
                => current_job_params(state).h160 = state.pub_h160
          /\ \A u \in Updaters :
                ((update_once_send_all(u, s) \/ update_once_send_new(u, s))
                   /\ sess[s].conn = "live")
                => upd[u].job.h160 = state.pub_h160]_vars

\* C28: when a submit is a block, the block handed to submitblock is the
\* validated header followed by the coinbase and the external transactions of
\* the template the header was built from: the header's prev-hash and merkle
\* branch, the coinbase and the transaction list are of one template
C28_BlockOfOneTemplate ==
    [][(handle_submit(Miner) /\ obs'.submit.result = "pending") =>
          LET header == [prevHash |-> state.prevHash_header,
                         merkle |-> state.merkle_branches]
              coinbase_full == state.coinbase.height
          IN /\ header.merkle = header.prevHash
             /\ coinbase_full = header.prevHash
             /\ state.externalTxs = header.prevHash]_vars

\* C29: a session whose connection_lost has run is a member of neither
\* new_sessions nor all_sessions, in every later state
C29_LostSessionInNoSet ==
    \A s \in Sessions :
        sess[s].conn = "lost" => s \notin state.new_sessions \cup state.all_sessions

\* C30: new_sessions and all_sessions are disjoint in every reachable state
C30_SessionSetsDisjoint ==
    state.new_sessions \cap state.all_sessions = {}

\* no update_once call and no handle_authorize is suspended at an await
Quiescent ==
    /\ \A u \in Updaters : upd[u].pc = "idle"
    /\ \A s \in Sessions : sess[s].apc = "idle"

\* C31: at every point where no handler or refresh is mid-way, each live
\* session that has subscribed (it holds an extranonce1) belongs to exactly
\* one of new_sessions and all_sessions
C31_SubscribedInExactlyOneSet ==
    Quiescent =>
        \A s \in Sessions :
            (sess[s].conn = "live" /\ sess[s].extranonce1 # 0) =>
                (s \in state.new_sessions) # (s \in state.all_sessions)

\* the MinerState record_share(m) hands to _maybe_retarget: the share is in
\* the window and the moving average of the intervals is up to date
WithShare(m) ==
    LET st == MinerOf(m)
        delta == now - st.shares[Len(st.shares)]
    IN [st EXCEPT !.shares = Append(@, now),
                  !.ema_interval =
                      IF st.shares = <<>> THEN @
                      ELSE IF @ = NoEma THEN Rat(delta, 1)
                      ELSE RatNorm(RatAdd(RatMul(ema_alpha, Rat(delta, 1)),
                                          RatMul(RatSub(Rat(1, 1), ema_alpha), @)))]

\* the retarget is due: at least 2 shares in the window (over a time that is
\* not zero) and either retarget_shares shares or retarget_time since the
\* last retarget
RetargetDue(st) ==
    /\ Len(st.shares) >= 2
    /\ st.shares[Len(st.shares)] > st.shares[1]
    /\ \/ Len(st.shares) >= retarget_shares
       \/ now - st.last_retarget >= retarget_time

\* difficulty * target / blended, limited to the steps, then to
\* [min_diff, max_diff], then to chain_headroom * network_diff
RetargetValue(st) ==
    LET n == Len(st.shares)
        avg_interval == Rat(st.shares[n] - st.shares[1], n - 1)
        blended == IF st.ema_interval = NoEma THEN avg_interval
                   ELSE RatMul(Rat(1, 2), RatAdd(avg_interval, st.ema_interval))
        raw == RatDiv(RatMul(st.difficulty, Rat(target_share_time, 1)), blended)
        stepped == RatMax(RatMul(st.difficulty, down_step),
                          RatMin(RatMul(st.difficulty, Rat(up_step, 1)), raw))
        bounded == RatMax(Rat(min_difficulty, 1), RatMin(Rat(max_difficulty, 1), stepped))
        cap == RatMul(state.advertised_diff, chain_headroom)
    IN RatNorm(IF state.advertised_diff # NoDiff THEN RatMin(bounded, cap) ELSE bounded)

\* C32: when record_share triggers a retarget the miner's difficulty becomes
\* difficulty * target / blended limited to the steps, to [min_diff,
\* max_diff] and to chain_headroom * network_diff when that differs from the
\* old difficulty by at least 5%, and stays what it was otherwise
C32_RetargetValue ==
    [][\A m \in Workers :
          (record_share(m) /\ RetargetDue(WithShare(m))) =>
              LET st == WithShare(m)
                  new_diff == RetargetValue(st)
                  change == RatAbs(RatSub(new_diff, st.difficulty))
                  applied == RatLeq(RatMul(Rat(1, 20), st.difficulty), change)
                  expected == IF applied THEN new_diff ELSE st.difficulty
              IN /\ RatLeq(miners'[m].difficulty, expected)
                 /\ RatLeq(expected, miners'[m].difficulty)
      ]_vars

\* the idle time after which get_difficulty lowers the difficulty
IdleLimit == Max(inactivity_lower, inactivity_multiples * target_share_time)

\* one step down by inactivity_drop_factor, not below min_diff
OneStepDown(difficulty) ==
    LET lowered == RatMul(difficulty, inactivity_drop_factor)
    IN RatNorm(IF RatLess(lowered, Rat(min_difficulty, 1))
               THEN Rat(min_difficulty, 1) ELSE lowered)

VarDiffOf(ms, worker) ==
    IF ms[worker] = NoMiner THEN Rat(min_difficulty, 1) ELSE ms[worker].difficulty

\* the difficulty the session validates by is the one its miner was sent last
C34_RecordedIsSent ==
    (Miner \in watched /\ sess[Miner].conn = "live" /\ obs.set_difficulty # NoDiff)
        => SentDiff(Miner) = obs.set_difficulty

C35_SubmitTouchesOwnWorkerOnly ==
    [][\A s \in Sessions :
          handle_submit(s) =>
              \A w \in Workers :
                  (worker_shares'[w] # worker_shares[w] \/ miners'[w] # miners[w])
                      => (sess[s].authorized /\ sess[s].worker_name = w)
      ]_vars

\* session.py:420
extranonce2_size == 4

\* C36: a submit is accepted only if extranonce2 is extranonce2_size bytes
\* and ntime and nonce are 4 bytes each: the coinbase of an accepted share
\* holds 8 extranonce bytes and its header is 80 bytes long
C36_AcceptedSubmitIsWellFormed ==
    (calc.fn = "header" /\ calc.done /\ calc.result) =>
        /\ Len(calc.extranonce2) = extranonce2_size
        /\ Len(calc.ntime) = 4
        /\ Len(calc.nonce) = 4
        /\ Len(calc.extranonce1) + Len(calc.extranonce2) = 8
        /\ Len(calc.header80) = 80

\* C37: a receive error ends the listen loop exactly when it is the fifth in
\* a row, a received hashblock message restarts the count whether or not its
\* callback fails, and once the loop has ended main() keeps waiting on its
\* tasks and the polling loop has its next step to take
C37_ListenerExitsAfterFiveErrors ==
    /\ [][_listen_loop =>
            /\ proc'.consecutive_errors = proc.consecutive_errors + 1
            /\ (proc'.listener = "ended") <=> (proc.consecutive_errors + 1 >= 5)
       ]_vars
    /\ [][on_rxd_block => (proc'.consecutive_errors = 0 /\ proc'.listener = proc.listener)]_vars
    /\ [](proc.listener = "ended" => proc.consecutive_errors = 5)
    /\ []((proc.listener = "ended" /\ proc.server # "raised" /\ Waiting) =>
            /\ ~ENABLED main
            /\ ~ENABLED (proc.listener = "listening" /\ on_rxd_block)
            /\ ENABLED (state_updater_loop \/ update_once_apply("poll")))

\* the listen loop has ended with the hashblock message of a new block still
\* unreceived, and the template is at the new height: the poller refreshed it
C37_Witness ==
    /\ proc.listener = "ended"
    /\ proc.main = "waiting"
    /\ zmqQueue > 0
    /\ nodeHeight > 1
    /\ state.height = nodeHeight

\* C38: a getblocktemplate error leaves the whole TemplateState as it was
\* (template fields, job id, session sets), whichever caller update_once has,
\* so what a submit is judged by is unchanged; the updater task stays alive
\* and, with no call in flight, can call update_once again
C38_RpcErrorKeepsTemplate ==
    /\ [][(state_updater_loop /\ upd'["poll"].pc = "idle") => state' = state]_vars
    /\ [][(on_rxd_block /\ upd'["zmq"].pc = "idle") => state' = state]_vars
    /\ [](proc.updater = "running")
    /\ [](upd["poll"].pc = "idle" => ENABLED state_updater_loop)

\* the hashblock message of the new block has been received and the refresh
\* it started has raised: no call is in flight and the job built for the old
\* height is still the template's
C38_Witness ==
    /\ nodeHeight > 1
    /\ zmqQueue = 0
    /\ \A u \in Updaters : upd[u].pc = "idle"
    /\ state.height = 1
    /\ state.coinbase # NoCoinbase
    /\ state.coinbase.height = 1

\* C39: the state file is never left partial: a tick leaves the file as it
\* was or holding the whole of the miners' new state; a program that starts
\* again with a file on disk gets a whole saved state out of it
C39_StateFileIsWhole ==
    /\ [](disk.file # "partial")
    /\ [][tick => (disk' = disk \/ disk' = [disk EXCEPT !.file = "whole", !.data = Persisted(miners')])]_vars
    /\ [][(_load_state /\ disk.file # "none") => (disk.file = "whole" /\ miners' = disk.data)]_vars
    /\ [][tick => disk'.loads = disk.loads]_vars

\* C40: connection_lost emits a disconnection event for a session only if
\* handle_authorize emitted a connection event for it before; connection_lost
\* runs once per session, so there is at most one disconnection event
C40_EventsArePaired ==
    /\ [][\A s \in Sessions :
            (connection_lost(s) /\ DisconnectionEvent(sess[s])) => ConnectionEvent(sess[s])]_vars
    /\ [][\A s \in Sessions :
            /\ connection_lost(s) => (sess[s].conn = "live" /\ sess'[s].conn = "lost")
            /\ sess[s].conn = "lost" => sess'[s].conn = "lost"]_vars

====
